---- MODULE Spec2Model ----
(***************************************************************************)
(* Facet levels of milli (src/milli/src/update/facets.rs).                 *)
(*                                                                         *)
(* Two stores hold the facet entries of every field:                       *)
(*   facet_id_f64_docids     key <<field, level, left, right>> -> docids   *)
(*   facet_id_string_docids  key <<field, 0, string>>                      *)
(*                                  -> [original, docids]      (level 0)   *)
(*                           key <<field, level, left_id, right_id>>       *)
(*                                  -> [bounds, docids]        (level > 0) *)
(* Keys are ordered as their big-endian encodings are: field, then level,  *)
(* then the bounds.  Numbers and strings are small integers here, ordered  *)
(* as the values they stand for; a bitmap is a set of document ids.        *)
(***************************************************************************)
EXTENDS Integers, Sequences, FiniteSets, TLC

\* ------------------------------------------------------------------ bounds
\* Largest number of level-0 entries a field has in one store.
MaxN == 8
\* Largest value given to Facets::level_group_size.
MaxGroupArg == 2
\* Largest value given to Facets::min_level_size.
MaxMinArg == 2
\* Number of times Facets::execute is run on the index.
MaxRuns == 2

\* --------------------------------------------------------------- constants
DefaultLevelGroupSize == 4
DefaultMinLevelSize == 5
MinLevelGroupSize == 2
U8Max == 255
\* f64::MIN and f64::MAX: below and above every number of a facet.
F64Min == -1000
F64Max == 1000
\* u32::MIN and u32::MAX: below and above every ordinal of a string level.
U32Min == 0
U32Max == 100000
\* The empty string, below every facet string.
EmptyStr == 0
\* tests::test_facets_string: 100 strings in "facet", 10 in "facet2".
TestFacetStrings == 100
TestFacet2Strings == 10

\* The faceted fields of the index.
Fields == {1, 2}
\* No value given (Option::None).
None == 0

VARIABLES
    f64db,                         \* index.facet_id_f64_docids
    strdb,                         \* index.facet_id_string_docids
    number_faceted_documents_ids,  \* field -> docids, as put by execute
    string_faceted_documents_ids,  \* field -> docids, as put by execute
    index_documents_config,        \* facet_level_group_size, facet_min_level_size
    level_group_size,              \* Facets.level_group_size
    min_level_size,                \* Facets.min_level_size
    pc,                            \* where the caller / execute stands
    faceted_fields,                \* the fields the for loop has yet to visit
    field_id,                      \* the field of the current iteration
    staged,                        \* what compute_facet_*_levels returned
    error,                         \* the error execute returned
    runs,                          \* executions started so far
    start,                         \* history: both stores when execute started
    written                        \* history: <<store, key>> put by this execute

vars == <<f64db, strdb, number_faceted_documents_ids, string_faceted_documents_ids,
          index_documents_config, level_group_size, min_level_size, pc,
          faceted_fields, field_id, staged, error, runs, start, written>>

\* ----------------------------------------------------------------- helpers
Max(a, b) == IF a >= b THEN a ELSE b
Min(a, b) == IF a <= b THEN a ELSE b

RECURSIVE Pow(_, _)
Pow(b, e) == IF e = 0 THEN 1 ELSE b * Pow(b, e - 1)

RECURSIVE UnionAll(_)
UnionAll(bitmaps) ==
    IF bitmaps = <<>> THEN {} ELSE Head(bitmaps) \cup UnionAll(Tail(bitmaps))

\* Byte order of two encoded keys: component by component, a prefix first.
RECURSIVE LexLess(_, _)
LexLess(a, b) ==
    IF a = <<>> THEN b # <<>>
    ELSE IF b = <<>> THEN FALSE
    ELSE IF Head(a) # Head(b) THEN Head(a) < Head(b)
    ELSE LexLess(Tail(a), Tail(b))

LexLeq(a, b) == a = b \/ LexLess(a, b)

\* The keys of S in key order.
SortKeys(S) ==
    LET rank == [k \in S |-> Cardinality({o \in S : LexLess(o, k)})]
    IN  [i \in 1..Cardinality(S) |-> CHOOSE k \in S : rank[k] = i - 1]

\* db.range(rtxn, &(from..)): the keys at or after `from`, in key order.
range(db, from) == SortKeys({k \in DOMAIN db : LexLeq(from, k)})

\* Iterator::take(n)
take(seq, n) == SubSeq(seq, 1, Min(n, Len(seq)))

\* db.prefix_iter(rtxn, &field_id.to_be_bytes()) folded into a count.
prefix_count(db, f) == Cardinality({k \in DOMAIN db : k[1] = f})

\* db.delete_range(wtxn, &(left..=right))
delete_range(db, left, right) ==
    [k \in {k \in DOMAIN db : ~(LexLeq(left, k) /\ LexLeq(k, right))} |-> db[k]]

\* ------------------------------------------------------------- the setters
\* A setter with a floor of 3 instead of 2: C6 tells the two apart.
set_level_group_size_floor_3(value) == Max(value, MinLevelGroupSize + 1)

set_level_group_size(value) == Max(value, MinLevelGroupSize)

set_min_level_size(value) == value

\* ------------------------------------------------------------ the clearers
\* A clearer whose range starts at level 2: C11 tells the two apart.
clear_field_number_levels_from_2(db, f) ==
    delete_range(db, <<f, 2, F64Min, F64Min>>, <<f, U8Max, F64Max, F64Max>>)

\* A clearer whose range starts at level 0: C9 tells the two apart.
clear_field_number_levels_from_0(db, f) ==
    delete_range(db, <<f, 0, F64Min, F64Min>>, <<f, U8Max, F64Max, F64Max>>)

clear_field_number_levels(db, f) ==
    delete_range(db, <<f, 1, F64Min, F64Min>>, <<f, U8Max, F64Max, F64Max>>)

\* A clearer whose range ends with level 1: C8 tells the two apart.
clear_field_string_levels_level_1(db, f) ==
    delete_range(db, <<f, 1, U32Min, U32Min>>, <<f, 1, U32Max, U32Max>>)

clear_field_string_levels(db, f) ==
    delete_range(db, <<f, 1, U32Min, U32Min>>, <<f, U8Max, U32Max, U32Max>>)

\* ------------------------------------------------------------- the planner
\* A planner that asks for more than min_level_size entries: C2 tells the
\* two apart.
RECURSIVE group_size_iter_strict(_, _, _, _)
group_size_iter_strict(l, first_level_size, g, m) ==
    IF first_level_size \div Pow(g, l) > m
    THEN <<(<<l, Pow(g, l)>>)>> \o group_size_iter_strict(l + 1, first_level_size, g, m)
    ELSE <<>>

\* (1u8..).map(|l| (l, g.pow(l))).take_while(|(_, s)| n / s >= m)
RECURSIVE group_size_iter(_, _, _, _)
group_size_iter(l, first_level_size, g, m) ==
    IF first_level_size \div Pow(g, l) >= m
    THEN <<(<<l, Pow(g, l)>>)>> \o group_size_iter(l + 1, first_level_size, g, m)
    ELSE <<>>

\* group_size_iter.last(): the top level, 0 when there is none.
top_level_of(first_level_size, g, m) ==
    LET group_sizes == group_size_iter(1, first_level_size, g, m)
    IN  IF group_sizes # <<>> THEN group_sizes[Len(group_sizes)][1] ELSE 0

\* ------------------------------------------------------------- the builder
\* One invocation of computed_group_bitmap.
Call(bitmaps, start_bound, end_bound) ==
    [bitmaps |-> bitmaps, start |-> start_bound, end |-> end_bound]

\* An iteration that reports its group one entry late: C4 tells the two
\* apart.
level_0_step_late(st, item, g) ==
    LET bound == item.bound
        start_bound == IF st.first_iteration_for_new_group THEN bound ELSE st.start_bound
        bitmaps == Append(st.bitmaps, item.docids)
    IN  IF Len(bitmaps) > g
        THEN [bitmaps |-> <<>>, start_bound |-> start_bound, end_bound |-> bound,
              first_iteration_for_new_group |-> TRUE,
              calls |-> Append(st.calls, Call(bitmaps, start_bound, bound))]
        ELSE [bitmaps |-> bitmaps, start_bound |-> start_bound, end_bound |-> bound,
              first_iteration_for_new_group |-> FALSE,
              calls |-> st.calls]

\* One iteration of the loop of the base case. st holds the locals of the
\* function and `calls`, the invocations of computed_group_bitmap so far.
level_0_step(st, item, g) ==
    LET bound == item.bound
        start_bound == IF st.first_iteration_for_new_group THEN bound ELSE st.start_bound
        bitmaps == Append(st.bitmaps, item.docids)
    IN  IF Len(bitmaps) = g
        THEN [bitmaps |-> <<>>, start_bound |-> start_bound, end_bound |-> bound,
              first_iteration_for_new_group |-> TRUE,
              calls |-> Append(st.calls, Call(bitmaps, start_bound, bound))]
        ELSE [bitmaps |-> bitmaps, start_bound |-> start_bound, end_bound |-> bound,
              first_iteration_for_new_group |-> FALSE,
              calls |-> st.calls]

\* The iterations over items[lo..hi], in order.
RECURSIVE level_0_loop(_, _, _, _, _)
level_0_loop(st, items, lo, hi, g) ==
    IF lo > hi THEN st
    ELSE IF lo = hi THEN level_0_step(st, items[lo], g)
    ELSE LET mid == (lo + hi) \div 2
             done == level_0_loop(st, items, lo, mid, g)
         IN  \* items[lo..mid] are done before items[mid+1..hi] are begun
             IF Len(done.calls) >= 0
             THEN level_0_loop(done, items, mid + 1, hi, g)
             ELSE done

\* A base case that drops the group left over: C1 tells the two apart.
level_0_no_leftover(items, g, level_0_bound) ==
    level_0_loop([bitmaps |-> <<>>, start_bound |-> level_0_bound,
                  end_bound |-> level_0_bound,
                  first_iteration_for_new_group |-> TRUE, calls |-> <<>>],
                 items, 1, Len(items), g).calls

\* The base case: the loop, then the group left over.
level_0(items, g, level_0_bound) ==
    LET st == level_0_loop([bitmaps |-> <<>>, start_bound |-> level_0_bound,
                            end_bound |-> level_0_bound,
                            first_iteration_for_new_group |-> TRUE, calls |-> <<>>],
                           items, 1, Len(items), g)
    IN  IF st.bitmaps # <<>>
        THEN Append(st.calls, Call(st.bitmaps, st.start_bound, st.end_bound))
        ELSE st.calls

\* A drain that ends every entry at the end of the accumulator: C5 tells the
\* two apart.
drain_to_end(level, bitmaps, range_for_bitmaps) ==
    [j \in 1..Len(bitmaps) |->
        [level |-> level, left |-> range_for_bitmaps[j][1],
         right |-> range_for_bitmaps[Len(range_for_bitmaps)][2],
         docids |-> bitmaps[j]]]

\* The entries written when the accumulator of a level is drained.
drain(level, bitmaps, range_for_bitmaps) ==
    [j \in 1..Len(bitmaps) |->
        [level |-> level, left |-> range_for_bitmaps[j][1],
         right |-> range_for_bitmaps[j][2], docids |-> bitmaps[j]]]

\* The report of a full or left-over accumulator: computed_group_bitmap, then
\* one write_entry for each of its bitmaps.
report(st, level, bitmaps, range_for_bitmaps) ==
    [bitmaps |-> <<>>, range_for_bitmaps |-> <<>>,
     calls |-> Append(st.calls,
                      Call(bitmaps, range_for_bitmaps[1][1],
                           range_for_bitmaps[Len(range_for_bitmaps)][2])),
     entries |-> st.entries \o drain(level, bitmaps, range_for_bitmaps)]

\* The closure given to the recursive call, run on one invocation by the level
\* below. st holds the accumulators, `calls` the invocations of
\* computed_group_bitmap so far and `entries` what cur_writer holds.
level_n_step(st, sub_call, g, level) ==
    LET combined_bitmap == UnionAll(sub_call.bitmaps)
        range_for_bitmaps == Append(st.range_for_bitmaps, <<sub_call.start, sub_call.end>>)
        bitmaps == Append(st.bitmaps, combined_bitmap)
    IN  IF Len(bitmaps) = g
        THEN report(st, level, bitmaps, range_for_bitmaps)
        ELSE [bitmaps |-> bitmaps, range_for_bitmaps |-> range_for_bitmaps,
              calls |-> st.calls, entries |-> st.entries]

\* The closure run on sub_calls[lo..hi], in order.
RECURSIVE level_n_loop(_, _, _, _, _, _)
level_n_loop(st, sub_calls, lo, hi, g, level) ==
    IF lo > hi THEN st
    ELSE IF lo = hi THEN level_n_step(st, sub_calls[lo], g, level)
    ELSE LET mid == (lo + hi) \div 2
             done == level_n_loop(st, sub_calls, lo, mid, g, level)
         IN  \* sub_calls[lo..mid] are done before sub_calls[mid+1..hi] are begun
             IF Len(done.calls) >= 0
             THEN level_n_loop(done, sub_calls, mid + 1, hi, g, level)
             ELSE done

\* A recursive case that drops the accumulator left over: C7 tells the two
\* apart.
level_n_no_leftover(sub_calls, g, level) ==
    level_n_loop([bitmaps |-> <<>>, range_for_bitmaps |-> <<>>,
                  calls |-> <<>>, entries |-> <<>>],
                 sub_calls, 1, Len(sub_calls), g, level)

\* The recursive case for one level, given the invocations of the level below:
\* the closure on each of them, then the accumulator left over.
level_n(sub_calls, g, level) ==
    LET st == level_n_loop([bitmaps |-> <<>>, range_for_bitmaps |-> <<>>,
                            calls |-> <<>>, entries |-> <<>>],
                           sub_calls, 1, Len(sub_calls), g, level)
    IN  IF st.bitmaps # <<>>
        THEN report(st, level, st.bitmaps, st.range_for_bitmaps)
        ELSE st

\* recursive_compute_levels: `calls` are the invocations of the caller's
\* computed_group_bitmap, `writers` the streams of levels 1..level.
\* level_0_bound is bound_from_db_key(0, &level_0_start).
RECURSIVE recursive_compute_levels(_, _, _, _)
recursive_compute_levels(level, items, g, level_0_bound) ==
    IF level = 0
    THEN [calls |-> level_0(items, g, level_0_bound), writers |-> <<>>]
    ELSE LET sub == recursive_compute_levels(level - 1, items, g, level_0_bound)
             cur == level_n(sub.calls, g, level)
         IN  [calls |-> cur.calls, writers |-> Append(sub.writers, cur.entries)]

\* ------------------------------------------------------ the entry encoders
write_number_entry(f, e) ==
    [key |-> <<f, e.level, e.left, e.right>>, data |-> e.docids]

\* A bound of a string level is (ordinal, string); the strings are kept at
\* level 1 only.
write_string_entry(f, e) ==
    [key |-> <<f, e.level, e.left[1], e.right[1]>>,
     data |-> [bounds |-> IF e.level = 1 THEN <<e.left[2], e.right[2]>> ELSE <<>>,
               docids |-> e.docids]]

\* A closure that keeps the docids of its last invocation only: C3 tells the
\* two apart.
collect_last(calls) ==
    IF calls = <<>> THEN {} ELSE UnionAll(calls[Len(calls)].bitmaps)

\* The docids the caller's closure has collected over all its invocations.
collect(calls) == UNION {UnionAll(calls[i].bitmaps) : i \in 1..Len(calls)}

\* ---------------------------------------- compute_facet_{number,strings}_levels
compute_facet_number_levels(db, g, m, f) ==
    LET first_level_size == prefix_count(db, f)
        level_0_start == <<f, 0, F64Min, F64Min>>
        top_level == top_level_of(first_level_size, g, m)
        keys == take(range(db, level_0_start), first_level_size)
        items == [i \in 1..Len(keys) |-> [bound |-> keys[i][3], docids |-> db[keys[i]]]]
    IN  IF top_level >= 1
        THEN LET built == recursive_compute_levels(top_level, items, g, F64Min)
             IN  [levels |-> [l \in 1..Len(built.writers) |->
                                [j \in 1..Len(built.writers[l]) |->
                                    write_number_entry(f, built.writers[l][j])]],
                  docids |-> collect(built.calls),
                  first_level_size |-> first_level_size,
                  top_level |-> top_level,
                  calls |-> built.calls]
        ELSE [levels |-> <<>>,
              docids |-> UNION {db[keys[i]] : i \in 1..Len(keys)},
              first_level_size |-> first_level_size,
              top_level |-> 0,
              calls |-> <<>>]

compute_facet_strings_levels(db, g, m, f) ==
    LET first_level_size == prefix_count(db, f)
        level_0_start == <<f, 0, EmptyStr>>
        top_level == top_level_of(first_level_size, g, m)
        keys == take(range(db, level_0_start), first_level_size)
        items == [i \in 1..Len(keys) |->
                    [bound |-> <<i - 1, keys[i][3]>>, docids |-> db[keys[i]].docids]]
    IN  IF top_level >= 1
        THEN LET built == recursive_compute_levels(top_level, items, g, <<0, EmptyStr>>)
             IN  [levels |-> [l \in 1..Len(built.writers) |->
                                [j \in 1..Len(built.writers[l]) |->
                                    write_string_entry(f, built.writers[l][j])]],
                  docids |-> collect(built.calls),
                  first_level_size |-> first_level_size,
                  top_level |-> top_level,
                  calls |-> built.calls]
        ELSE [levels |-> <<>>,
              docids |-> UNION {db[keys[i]].docids : i \in 1..Len(keys)},
              first_level_size |-> first_level_size,
              top_level |-> 0,
              calls |-> <<>>]

\* -------------------------------------------------- write_into_lmdb_database
\* One stream put into the store entry by entry; a key the store already
\* holds goes to the merge function, which returns IndexingMergingKeys and
\* ends the insertion. Entries stream[lo..hi], in order.
RECURSIVE write_into_lmdb_database(_, _, _, _)
write_into_lmdb_database(st, stream, lo, hi) ==
    IF lo > hi THEN st
    ELSE IF lo = hi
    THEN IF stream[lo].key \in DOMAIN st.db
         THEN [db |-> st.db, ok |-> FALSE]
         ELSE [db |-> (stream[lo].key :> stream[lo].data) @@ st.db, ok |-> TRUE]
    ELSE LET mid == (lo + hi) \div 2
             done == write_into_lmdb_database(st, stream, lo, mid)
         IN  \* stream[lo..mid] is put before stream[mid+1..hi]; an error ends it
             IF done.ok
             THEN write_into_lmdb_database(done, stream, mid + 1, hi)
             ELSE done

\* A loop that ends after the first stream: C10 tells the two apart.
write_levels_first(db, levels, l) ==
    IF l > Len(levels) THEN [db |-> db, ok |-> TRUE]
    ELSE write_into_lmdb_database([db |-> db, ok |-> TRUE], levels[l], 1,
                                  Len(levels[l]))

\* for levels in facet_levels { write_into_lmdb_database(..)? }
RECURSIVE write_levels(_, _, _)
write_levels(db, levels, l) ==
    IF l > Len(levels) THEN [db |-> db, ok |-> TRUE]
    ELSE LET r == write_into_lmdb_database([db |-> db, ok |-> TRUE], levels[l], 1,
                                           Len(levels[l]))
         IN  IF r.ok THEN write_levels(r.db, levels, l + 1) ELSE r

NoStaged == [levels |-> <<>>, docids |-> {}, first_level_size |-> 0,
             top_level |-> 0, calls |-> <<>>]

\* ------------------------------------------------------------ initial data
\* The i-th number and the i-th string of a field, in increasing order.
NumberValue(i) == 3 * i - 5

StringValue(i) == i

\* The documents that hold the i-th value of field f: one document of their
\* own and, for every other value, a document that holds several values.
DocIds(f, i) == {100 * f + i} \cup (IF i % 2 = 1 THEN {100 * f} ELSE {})

\* Documents of an earlier index, found only in entries no longer current.
StaleDocIds(f) == {900 + f}

Level0Numbers(f, n) ==
    [k \in {<<f, 0, NumberValue(i), NumberValue(i)>> : i \in 1..n} |->
        DocIds(f, CHOOSE i \in 1..n : NumberValue(i) = k[3])]

Level0Strings(f, n) ==
    [k \in {<<f, 0, StringValue(i)>> : i \in 1..n} |->
        [original |-> k[3], docids |-> DocIds(f, CHOOSE i \in 1..n : StringValue(i) = k[3])]]

\* Levels left by an earlier rebuild of other level-0 contents.
StaleNumberLevels(f) ==
    [k \in {<<f, 1, NumberValue(1), NumberValue(2)>>,
            <<f, 1, NumberValue(1), NumberValue(4)>>,
            <<f, 3, NumberValue(1), NumberValue(9)>>} |-> StaleDocIds(f)]

StaleStringLevels(f) ==
    [k \in {<<f, 1, 0, 1>>, <<f, 1, 0, 3>>, <<f, 3, 0, 8>>} |->
        [bounds |-> IF k[2] = 1 THEN <<StringValue(k[3] + 1), StringValue(k[4] + 1)>>
                    ELSE <<>>,
         docids |-> StaleDocIds(f)]]

Configs ==
    [facet_level_group_size : {None} \cup 1..MaxGroupArg,
     facet_min_level_size : {None} \cup 1..MaxMinArg]

\* The state after Facets::new on an index holding the given stores.
InitWith(numbers, strings) ==
    /\ f64db = numbers
    /\ strdb = strings
    /\ number_faceted_documents_ids = [f \in Fields |-> StaleDocIds(f)]
    /\ string_faceted_documents_ids = [f \in Fields |-> StaleDocIds(f)]
    /\ index_documents_config \in Configs
    /\ level_group_size = DefaultLevelGroupSize
    /\ min_level_size = DefaultMinLevelSize
    /\ pc = "new"
    /\ faceted_fields = {}
    /\ field_id = None
    /\ staged = NoStaged
    /\ error = "none"
    /\ runs = 0
    /\ start = [f64db |-> numbers, strdb |-> strings]
    /\ written = {}

\* Field 1 holds a numbers and b strings, field 2 b numbers and MaxN - a
\* strings.
Init ==
    \E a, b \in 0..MaxN :
        InitWith(Level0Numbers(1, a) @@ StaleNumberLevels(1)
                    @@ Level0Numbers(2, b) @@ StaleNumberLevels(2),
                 Level0Strings(1, b) @@ StaleStringLevels(1)
                    @@ Level0Strings(2, MaxN - a) @@ StaleStringLevels(2))

\* tests::test_facets_string: every document holds one string of one field.
TestDocStrings(f, n, first_doc) ==
    [k \in {<<f, 0, StringValue(i)>> : i \in 1..n} |->
        [original |-> k[3], docids |-> {first_doc + k[3] - 1}]]

InitTest ==
    InitWith(<<>>, TestDocStrings(1, TestFacetStrings, 0)
                      @@ TestDocStrings(2, TestFacet2Strings, TestFacetStrings))

\* ----------------------------------------------------------------- actions
\* builder.level_group_size(value), when the configuration gives a value.
Facets_level_group_size ==
    /\ pc = "new"
    /\ index_documents_config.facet_level_group_size # None
    /\ level_group_size' = set_level_group_size(index_documents_config.facet_level_group_size)
    /\ pc' = "new_group"
    /\ UNCHANGED <<f64db, strdb, number_faceted_documents_ids,
                   string_faceted_documents_ids, index_documents_config,
                   min_level_size, faceted_fields, field_id, staged, error, runs,
                   start, written>>

\* builder.min_level_size(value), when the configuration gives a value.
Facets_min_level_size ==
    /\ \/ pc = "new_group"
       \/ pc = "new" /\ index_documents_config.facet_level_group_size = None
    /\ index_documents_config.facet_min_level_size # None
    /\ min_level_size' = set_min_level_size(index_documents_config.facet_min_level_size)
    /\ pc' = "new_min"
    /\ UNCHANGED <<f64db, strdb, number_faceted_documents_ids,
                   string_faceted_documents_ids, index_documents_config,
                   level_group_size, faceted_fields, field_id, staged, error, runs,
                   start, written>>

\* The setters the configuration asks for have been called.
Configured ==
    \/ pc = "new_min"
    \/ pc = "new_group" /\ index_documents_config.facet_min_level_size = None
    \/ /\ pc = "new"
       /\ index_documents_config.facet_level_group_size = None
       /\ index_documents_config.facet_min_level_size = None

\* execute, up to the for loop.
Facets_execute ==
    /\ Configured
    /\ pc' = "for"
    /\ faceted_fields' = Fields
    /\ field_id' = None
    /\ runs' = runs + 1
    /\ start' = [f64db |-> f64db, strdb |-> strdb]
    /\ written' = {}
    /\ UNCHANGED <<f64db, strdb, number_faceted_documents_ids,
                   string_faceted_documents_ids, index_documents_config,
                   level_group_size, min_level_size, staged, error>>

\* for field_id in faceted_fields: the set is visited in any order.
for_field_id ==
    /\ pc = "for"
    /\ \E f \in faceted_fields :
        /\ field_id' = f
        /\ faceted_fields' = faceted_fields \ {f}
    /\ pc' = "clear_string"
    /\ UNCHANGED <<f64db, strdb, number_faceted_documents_ids,
                   string_faceted_documents_ids, index_documents_config,
                   level_group_size, min_level_size, staged, error, runs, start,
                   written>>

execute_clear_string ==
    /\ pc = "clear_string"
    /\ strdb' = clear_field_string_levels(strdb, field_id)
    /\ pc' = "compute_string"
    /\ UNCHANGED <<f64db, number_faceted_documents_ids, string_faceted_documents_ids,
                   index_documents_config, level_group_size, min_level_size,
                   faceted_fields, field_id, staged, error, runs, start, written>>

execute_compute_string ==
    /\ pc = "compute_string"
    /\ staged' = compute_facet_strings_levels(strdb, level_group_size, min_level_size,
                                              field_id)
    /\ pc' = "put_string"
    /\ UNCHANGED <<f64db, strdb, number_faceted_documents_ids,
                   string_faceted_documents_ids, index_documents_config,
                   level_group_size, min_level_size, faceted_fields, field_id, error,
                   runs, start, written>>

\* A read of the store fails (the count, the direct scan, or the base case of
\* the builder), or a write to a staging stream does: `?` returns the error.
execute_compute_string_fails ==
    /\ pc = "compute_string"
    /\ \E e \in {"level_0_read", "staging_write"} :
        /\ e = "staging_write" =>
              top_level_of(prefix_count(strdb, field_id), level_group_size,
                           min_level_size) >= 1
        /\ error' = e
    /\ pc' = "failed_string"
    /\ UNCHANGED <<f64db, strdb, number_faceted_documents_ids,
                   string_faceted_documents_ids, index_documents_config,
                   level_group_size, min_level_size, faceted_fields, field_id, staged,
                   runs, start, written>>

execute_put_string ==
    /\ pc = "put_string"
    /\ string_faceted_documents_ids' =
          [string_faceted_documents_ids EXCEPT ![field_id] = staged.docids]
    /\ pc' = "write_string"
    /\ UNCHANGED <<f64db, strdb, number_faceted_documents_ids, index_documents_config,
                   level_group_size, min_level_size, faceted_fields, field_id, staged,
                   error, runs, start, written>>

execute_write_string ==
    /\ pc = "write_string"
    /\ LET r == write_levels(strdb, staged.levels, 1)
       IN  /\ strdb' = r.db
           /\ written' = written \cup {<<"string", k>> : k \in DOMAIN r.db \ DOMAIN strdb}
           /\ pc' = IF r.ok THEN "clear_number" ELSE "failed_merge"
           /\ error' = IF r.ok THEN error ELSE "IndexingMergingKeys"
    /\ UNCHANGED <<f64db, number_faceted_documents_ids, string_faceted_documents_ids,
                   index_documents_config, level_group_size, min_level_size,
                   faceted_fields, field_id, staged, runs, start>>

execute_clear_number ==
    /\ pc = "clear_number"
    /\ f64db' = clear_field_number_levels(f64db, field_id)
    /\ pc' = "compute_number"
    /\ UNCHANGED <<strdb, number_faceted_documents_ids, string_faceted_documents_ids,
                   index_documents_config, level_group_size, min_level_size,
                   faceted_fields, field_id, staged, error, runs, start, written>>

execute_compute_number ==
    /\ pc = "compute_number"
    /\ staged' = compute_facet_number_levels(f64db, level_group_size, min_level_size,
                                             field_id)
    /\ pc' = "put_number"
    /\ UNCHANGED <<f64db, strdb, number_faceted_documents_ids,
                   string_faceted_documents_ids, index_documents_config,
                   level_group_size, min_level_size, faceted_fields, field_id, error,
                   runs, start, written>>

execute_compute_number_fails ==
    /\ pc = "compute_number"
    /\ \E e \in {"level_0_read", "staging_write"} :
        /\ e = "staging_write" =>
              top_level_of(prefix_count(f64db, field_id), level_group_size,
                           min_level_size) >= 1
        /\ error' = e
    /\ pc' = "failed_number"
    /\ UNCHANGED <<f64db, strdb, number_faceted_documents_ids,
                   string_faceted_documents_ids, index_documents_config,
                   level_group_size, min_level_size, faceted_fields, field_id, staged,
                   runs, start, written>>

execute_put_number ==
    /\ pc = "put_number"
    /\ number_faceted_documents_ids' =
          [number_faceted_documents_ids EXCEPT ![field_id] = staged.docids]
    /\ pc' = "write_number"
    /\ UNCHANGED <<f64db, strdb, string_faceted_documents_ids, index_documents_config,
                   level_group_size, min_level_size, faceted_fields, field_id, staged,
                   error, runs, start, written>>

execute_write_number ==
    /\ pc = "write_number"
    /\ LET r == write_levels(f64db, staged.levels, 1)
       IN  /\ f64db' = r.db
           /\ written' = written \cup {<<"number", k>> : k \in DOMAIN r.db \ DOMAIN f64db}
           /\ pc' = IF r.ok THEN "for" ELSE "failed_merge"
           /\ error' = IF r.ok THEN error ELSE "IndexingMergingKeys"
    /\ UNCHANGED <<strdb, number_faceted_documents_ids, string_faceted_documents_ids,
                   index_documents_config, level_group_size, min_level_size,
                   faceted_fields, field_id, staged, runs, start>>

\* Ok(()) once every faceted field has been visited.
execute_ok ==
    /\ pc = "for"
    /\ faceted_fields = {}
    /\ pc' = "done"
    /\ UNCHANGED <<f64db, strdb, number_faceted_documents_ids,
                   string_faceted_documents_ids, index_documents_config,
                   level_group_size, min_level_size, faceted_fields, field_id, staged,
                   error, runs, start, written>>

\* Facets::new for the next rebuild of the same index.
Facets_new ==
    /\ pc = "done"
    /\ runs < MaxRuns
    /\ level_group_size' = DefaultLevelGroupSize
    /\ min_level_size' = DefaultMinLevelSize
    /\ pc' = "new"
    /\ field_id' = None
    /\ staged' = NoStaged
    /\ UNCHANGED <<f64db, strdb, number_faceted_documents_ids,
                   string_faceted_documents_ids, index_documents_config,
                   faceted_fields, error, runs, start, written>>

\* The steps execute takes by itself once called.
ExecuteStep ==
    \/ for_field_id
    \/ execute_clear_string
    \/ execute_compute_string
    \/ execute_compute_string_fails
    \/ execute_put_string
    \/ execute_write_string
    \/ execute_clear_number
    \/ execute_compute_number
    \/ execute_compute_number_fails
    \/ execute_put_number
    \/ execute_write_number
    \/ execute_ok

Next ==
    \/ Facets_level_group_size
    \/ Facets_min_level_size
    \/ Facets_execute
    \/ ExecuteStep
    \/ Facets_new

Spec == Init /\ [][Next]_vars

\* The positions of execute between its call and its return.
Running ==
    {"for", "clear_string", "compute_string", "put_string", "write_string",
     "clear_number", "compute_number", "put_number", "write_number"}

\* The positions at which execute has returned, with Ok or with an error.
Returned == {"done", "failed_string", "failed_number", "failed_merge"}

\* execute is one sequential function: once called, it moves on to its next
\* position until it returns.
ExecuteProgress ==
    /\ pc \in Running
    /\ pc' \in (Running \cup Returned) \ {pc}

\* The index of tests::test_facets_string; execute, once called, runs on.
SpecTest == InitTest /\ [][Next]_vars /\ WF_pc(ExecuteProgress)

\* ------------------------------------------------------- reading the stores
Stores == {"number", "string"}

StoreDb(s) == IF s = "number" THEN f64db ELSE strdb

EntryDocids(s, db, k) == IF s = "number" THEN db[k] ELSE db[k].docids

\* The keys of field f at level L.
LevelKeys(db, f, L) == {k \in DOMAIN db : k[1] = f /\ k[2] = L}

\* The levels above 0 at which field f has entries.
BuiltLevels(db, f) == {k[2] : k \in {k \in DOMAIN db : k[1] = f /\ k[2] >= 1}}

LevelUnion(s, db, f, L) == UNION {EntryDocids(s, db, k) : k \in LevelKeys(db, f, L)}

\* The entries of every level above 0, of every field.
AboveLevel0(db) == [k \in {k \in DOMAIN db : k[2] >= 1} |-> db[k]]

\* The bound of the i-th level-0 entry of a field, z being its level-0 keys
\* in key order: the number, or the ordinal of the string.
Level0Bound(s, z, i) == IF s = "number" THEN z[i][3] ELSE i - 1

\* The level-0 entries (by position) inside the range of the entry with key k.
Covered(s, z, k) ==
    {i \in 1..Len(z) : k[3] <= Level0Bound(s, z, i) /\ Level0Bound(s, z, i) <= k[4]}

Ceil(a, b) == (a + b - 1) \div b

\* ------------------------------------------------------------------ claims

\* C1: after a successful execute, for every faceted field, in both stores,
\* the bitmaps of the entries of every level above 0 have the same union as
\* the bitmaps of the level-0 entries of the field.
C1_Coverage ==
    pc = "done" =>
        \A f \in Fields : \A s \in Stores : \A L \in BuiltLevels(StoreDb(s), f) :
            LevelUnion(s, StoreDb(s), f, L) = LevelUnion(s, StoreDb(s), f, 0)

\* A field with two levels built whose last level-1 group is short.
C1_Witness ==
    /\ pc = "done"
    /\ \E f \in Fields : \E s \in Stores :
        /\ {1, 2} \subseteq BuiltLevels(StoreDb(s), f)
        /\ Cardinality(LevelKeys(StoreDb(s), f, 0)) % level_group_size # 0

\* C2: the top level the planner picks is the largest L >= 1 with
\* floor(n / g^L) >= m; there is none exactly when n < m * g, and then the
\* builder is not invoked and no level stream is returned.
C2_TopLevel ==
    pc \in {"put_string", "put_number"} =>
        LET n == staged.first_level_size
            g == level_group_size
            m == min_level_size
            worth == {L \in 1..(n + 1) : n \div Pow(g, L) >= m}
        IN  /\ n = Cardinality(LevelKeys(IF pc = "put_string" THEN strdb ELSE f64db,
                                         field_id, 0))
            /\ worth = {} <=> n < m * g
            /\ worth # {} => /\ staged.top_level \in worth
                             /\ \A L \in worth : L <= staged.top_level
                             /\ Len(staged.levels) = staged.top_level
                             /\ staged.calls # <<>>
            /\ worth = {} => /\ staged.top_level = 0
                             /\ staged.levels = <<>>
                             /\ staged.calls = <<>>

\* The planner stops at level 2 because level 3 would be smaller than
\* min_level_size, not because it would be empty.
C2_Witness ==
    /\ pc = "put_number"
    /\ staged.top_level = 2
    /\ min_level_size = 2
    /\ staged.first_level_size \div Pow(level_group_size, 3) = 1

\* C3: after a successful execute the document ids put for a field, numbers
\* and strings apart, are the union of the bitmaps of its level-0 entries in
\* that store, whether levels were built or not; a field without level-0
\* entries gets the empty set.
C3_FacetedDocumentsIds ==
    pc = "done" =>
        \A f \in Fields :
            /\ number_faceted_documents_ids[f] = LevelUnion("number", f64db, f, 0)
            /\ string_faceted_documents_ids[f] = LevelUnion("string", strdb, f, 0)

\* The document ids put for the fields in store s.
AllDocids(s) ==
    IF s = "number" THEN number_faceted_documents_ids ELSE string_faceted_documents_ids

\* One field has levels built in a store, one has level-0 entries but no
\* level in a store, one has nothing in a store.
C3_Witness ==
    /\ pc = "done"
    /\ \E f \in Fields : \E s \in Stores : BuiltLevels(StoreDb(s), f) # {}
    /\ \E f \in Fields : \E s \in Stores :
        /\ BuiltLevels(StoreDb(s), f) = {}
        /\ LevelKeys(StoreDb(s), f, 0) # {}
        /\ AllDocids(s)[f] # {}
    /\ \E f \in Fields : \E s \in Stores :
        /\ LevelKeys(StoreDb(s), f, 0) = {}
        /\ AllDocids(s)[f] = {}

\* C4: level L of a field of n level-0 entries has ceil(n / g^L) entries;
\* the j-th of them, in key order, aggregates the level-0 entries
\* (j-1) * g^L + 1 .. min(j * g^L, n), so g^L of them but for the last, which
\* takes what is left, and every level-0 entry is in one of them.
C4_GroupSizes ==
    pc = "done" =>
        \A f \in Fields : \A s \in Stores : \A L \in BuiltLevels(StoreDb(s), f) :
            LET db == StoreDb(s)
                z == SortKeys(LevelKeys(db, f, 0))
                n == Len(z)
                size == Pow(level_group_size, L)
                ks == SortKeys(LevelKeys(db, f, L))
            IN  /\ Len(ks) = Ceil(n, size)
                /\ \A j \in 1..Len(ks) :
                    LET group == ((j - 1) * size + 1)..Min(j * size, n)
                    IN  /\ Covered(s, z, ks[j]) = group
                        /\ Cardinality(group) =
                              IF j < Len(ks) \/ n % size = 0 THEN size ELSE n % size
                        /\ EntryDocids(s, db, ks[j]) =
                              UNION {EntryDocids(s, db, z[i]) : i \in group}

\* A level 2 whose last entry aggregates fewer than g^2 level-0 entries.
C4_Witness ==
    /\ pc = "done"
    /\ \E f \in Fields : \E s \in Stores :
        /\ 2 \in BuiltLevels(StoreDb(s), f)
        /\ Cardinality(LevelKeys(StoreDb(s), f, 0)) % Pow(level_group_size, 2) # 0
        /\ Cardinality(LevelKeys(StoreDb(s), f, 2)) >= 2

\* The range of the entry with key k, and the ranges of the entries of the
\* level below L (of the level-0 entries when L = 1).
RangeOf(k) == <<k[3], k[4]>>

LowerRanges(s, db, f, L, z) ==
    IF L = 1
    THEN {<<Level0Bound(s, z, i), Level0Bound(s, z, i)>> : i \in 1..Len(z)}
    ELSE {RangeOf(k) : k \in LevelKeys(db, f, L - 1)}

\* C5: the entries of a level above 0, in key order, have ranges that start
\* at the first and end at the last level-0 bound of the field and follow one
\* another on consecutive level-0 entries without overlap; the range of every
\* entry of the level below lies inside exactly one of them. A level-1 entry
\* of strings keeps the strings of its two bounds, a higher one none.
C5_Partition ==
    pc = "done" =>
        \A f \in Fields : \A s \in Stores : \A L \in BuiltLevels(StoreDb(s), f) :
            LET db == StoreDb(s)
                z == SortKeys(LevelKeys(db, f, 0))
                n == Len(z)
                ks == SortKeys(LevelKeys(db, f, L))
            IN  /\ n >= 1
                /\ ks[1][3] = Level0Bound(s, z, 1)
                /\ ks[Len(ks)][4] = Level0Bound(s, z, n)
                /\ \A j \in 1..Len(ks) : ks[j][3] <= ks[j][4]
                /\ \A j \in 1..(Len(ks) - 1) :
                    \E i \in 1..(n - 1) :
                        /\ ks[j][4] = Level0Bound(s, z, i)
                        /\ ks[j + 1][3] = Level0Bound(s, z, i + 1)
                /\ \A r \in LowerRanges(s, db, f, L, z) :
                    Cardinality({k \in LevelKeys(db, f, L) :
                                    k[3] <= r[1] /\ r[2] <= k[4]}) = 1
                /\ s = "string" =>
                    \A k \in LevelKeys(db, f, L) :
                        db[k].bounds = IF L = 1 THEN <<z[k[3] + 1][3], z[k[4] + 1][3]>>
                                       ELSE <<>>

\* Strings with three level-1 entries under two level-2 entries.
C5_Witness ==
    /\ pc = "done"
    /\ \E f \in Fields :
        /\ Cardinality(LevelKeys(strdb, f, 1)) >= 3
        /\ Cardinality(LevelKeys(strdb, f, 2)) >= 2

\* What a bound of the builder is in a key: the number, or the ordinal of
\* the (ordinal, string) pair.
BoundKey(s, b) == IF s = "number" THEN b ELSE b[1]

\* The store compute_facet_*_levels has just read, while its result is staged.
StagedStore == IF pc = "put_string" THEN "string" ELSE "number"

RECURSIVE Flatten(_)
Flatten(seqs) == IF seqs = <<>> THEN <<>> ELSE Head(seqs) \o Flatten(Tail(seqs))

\* C7 as stated: when levels are built, the caller's closure is invoked
\* exactly once, with the union and the range of the whole field.
C7_SingleCall ==
    (pc \in {"put_string", "put_number"} /\ staged.top_level >= 1) =>
        LET s == StagedStore
            z == SortKeys(LevelKeys(StoreDb(s), field_id, 0))
        IN  /\ Len(staged.calls) = 1
            /\ UnionAll(staged.calls[1].bitmaps) = LevelUnion(s, StoreDb(s), field_id, 0)
            /\ BoundKey(s, staged.calls[1].start) = Level0Bound(s, z, 1)
            /\ BoundKey(s, staged.calls[1].end) = Level0Bound(s, z, Len(z))

\* C7, amended: when levels are built, the caller's closure is invoked once
\* for every group of up to level_group_size entries of the top level, so
\* ceil(n / g^(top_level + 1)) >= 1 times; the i-th invocation reports the
\* bitmaps and the range of the i-th group, and the invocations together the
\* union and the range of the whole field.
C7_TopLevelCalls ==
    (pc \in {"put_string", "put_number"} /\ staged.top_level >= 1) =>
        LET s == StagedStore
            db == StoreDb(s)
            z == SortKeys(LevelKeys(db, field_id, 0))
            g == level_group_size
            calls == staged.calls
            top == staged.levels[staged.top_level]
        IN  /\ Len(calls) = Ceil(Len(z), Pow(g, staged.top_level + 1))
            /\ Len(calls) >= 1
            /\ Flatten([i \in 1..Len(calls) |-> calls[i].bitmaps])
                  = [j \in 1..Len(top) |-> IF s = "number" THEN top[j].data
                                           ELSE top[j].data.docids]
            /\ \A i \in 1..Len(calls) :
                /\ Len(calls[i].bitmaps) = Min(g, Len(top) - (i - 1) * g)
                /\ BoundKey(s, calls[i].start) = top[(i - 1) * g + 1].key[3]
                /\ BoundKey(s, calls[i].end) = top[Min(i * g, Len(top))].key[4]
            /\ collect(calls) = LevelUnion(s, db, field_id, 0)
            /\ BoundKey(s, calls[1].start) = Level0Bound(s, z, 1)
            /\ BoundKey(s, calls[Len(calls)].end) = Level0Bound(s, z, Len(z))

\* The top level has more than level_group_size entries: two invocations.
C7_Witness ==
    /\ pc = "put_string"
    /\ staged.top_level >= 1
    /\ Len(staged.calls) = 2
    /\ Len(staged.calls[2].bitmaps) < level_group_size

\* C8: a successful execute leaves, above level 0, only entries it has
\* written itself, whatever the stores held before; run again on the same
\* level 0 with the same sizes, it leaves the same entries above level 0,
\* keys and values, as the run before.
C8_Idempotent ==
    pc = "done" =>
        /\ \A s \in Stores : \A k \in DOMAIN StoreDb(s) :
              k[2] >= 1 => <<s, k>> \in written
        /\ runs >= 2 =>
              /\ AboveLevel0(f64db) = AboveLevel0(start.f64db)
              /\ AboveLevel0(strdb) = AboveLevel0(start.strdb)

\* The second run has ended and levels are in both stores.
C8_Witness ==
    /\ pc = "done"
    /\ runs = 2
    /\ \E f \in Fields : BuiltLevels(f64db, f) # {} /\ BuiltLevels(strdb, f) # {}

\* What a store holds once the levels above 0 of field f are taken out.
WithoutLevels(db, f) ==
    [k \in {k \in DOMAIN db : ~(k[1] = f /\ k[2] >= 1)} |-> db[k]]

\* C9: a clearer deletes the entries of its field at level 1 and above and
\* nothing else, in its store, and leaves the other store alone; clearing
\* once more changes nothing.
C9_ClearFrame ==
    [][/\ pc = "clear_number" =>
            /\ f64db' = WithoutLevels(f64db, field_id)
            /\ strdb' = strdb
            /\ clear_field_number_levels(f64db', field_id) = f64db'
       /\ pc = "clear_string" =>
            /\ strdb' = WithoutLevels(strdb, field_id)
            /\ f64db' = f64db
            /\ clear_field_string_levels(strdb', field_id) = strdb']_vars

\* The number clearer has just deleted levels of its field; level 0 of the
\* field and the levels of the other field are in the store.
C9_Witness ==
    /\ pc = "compute_number"
    /\ BuiltLevels(start.f64db, field_id) # {}
    /\ BuiltLevels(f64db, field_id) = {}
    /\ LevelKeys(f64db, field_id, 0) # {}
    /\ \E h \in Fields \ {field_id} : BuiltLevels(f64db, h) # {}

\* No entry of field f has been put into store s by this execute.
NoneWritten(s, f) == \A w \in written : ~(w[1] = s /\ w[2][1] = f)

\* The largest L >= 1 with floor(n / g^L) >= m, 0 when there is none.
LargestWorth(n, g, m) ==
    LET worth == {L \in 1..(n + 1) : n \div Pow(g, L) >= m}
    IN  IF worth = {} THEN 0 ELSE CHOOSE L \in worth : \A K \in worth : K <= L

\* Store s holds, for field f, the whole level set of its level 0, all of it
\* put by this execute.
FullyRebuilt(s, f) ==
    LET db == StoreDb(s)
        n == Cardinality(LevelKeys(db, f, 0))
        top == LargestWorth(n, level_group_size, min_level_size)
    IN  /\ BuiltLevels(db, f) = 1..top
        /\ \A L \in 1..top :
            /\ Cardinality(LevelKeys(db, f, L)) = Ceil(n, Pow(level_group_size, L))
            /\ LevelUnion(s, db, f, L) = LevelUnion(s, db, f, 0)
            /\ \A k \in LevelKeys(db, f, L) : <<s, k>> \in written

\* C10 as stated: when the build of a field fails, the field has a fully
\* rebuilt level set or none of its new entries has been written.
C10_AllOrNothing ==
    pc \in {"failed_string", "failed_number"} =>
        \/ \A s \in Stores : FullyRebuilt(s, field_id)
        \/ \A s \in Stores : NoneWritten(s, field_id)

\* C10, amended: when a read of level 0 or a write to a staging stream fails
\* in the build of one store of a field, execute returns that error and has
\* put no entry of the field into that store, which holds no level above 0
\* of the field; the other store of the field is fully rebuilt (the strings,
\* when the numbers fail) or as it was when execute started (the numbers,
\* when the strings fail).
C10_PerStore ==
    pc \in {"failed_string", "failed_number"} =>
        LET failing == IF pc = "failed_string" THEN "string" ELSE "number"
        IN  /\ error \in {"level_0_read", "staging_write"}
            /\ NoneWritten(failing, field_id)
            /\ BuiltLevels(StoreDb(failing), field_id) = {}
            /\ pc = "failed_number" => FullyRebuilt("string", field_id)
            /\ pc = "failed_string" =>
                  /\ NoneWritten("number", field_id)
                  /\ \A L \in BuiltLevels(start.f64db, field_id) \cup {0} :
                        LevelKeys(f64db, field_id, L) = LevelKeys(start.f64db, field_id, L)

\* The numbers of a field fail on a staging stream after its string levels
\* have been put into the store.
C10_Witness ==
    /\ pc = "failed_number"
    /\ error = "staging_write"
    /\ \E w \in written : w[1] = "string" /\ w[2][1] = field_id

\* The configuration of "tiny_groups_tiny_levels": both sizes given as 1.
TinyGroupsTinyLevels ==
    /\ index_documents_config.facet_level_group_size = 1
    /\ index_documents_config.facet_min_level_size = 1

\* C6 as stated: with 100 strings and both sizes given as 1, every level
\* built has 100 entries, with the bitmaps of level 0.
C6_GroupSizeOne ==
    (pc = "done" /\ TinyGroupsTinyLevels) =>
        /\ BuiltLevels(strdb, 1) # {}
        /\ \A L \in BuiltLevels(strdb, 1) :
            /\ Cardinality(LevelKeys(strdb, 1, L)) = TestFacetStrings
            /\ {strdb[k].docids : k \in LevelKeys(strdb, 1, L)}
                  = {strdb[k].docids : k \in LevelKeys(strdb, 1, 0)}

\* What the rebuild leaves for the 100 strings with groups of 2: levels 1 to
\* 6, level L of ceil(100 / 2^L) entries, fewer than 100, each the union of
\* the bitmaps of the 2^L (or, for the last, remaining) level-0 entries it
\* spans.
TestLevels ==
    LET z == SortKeys(LevelKeys(strdb, 1, 0))
    IN  /\ level_group_size = 2
        /\ BuiltLevels(strdb, 1) = 1..6
        /\ \A L \in 1..6 :
            /\ Cardinality(LevelKeys(strdb, 1, L)) = Ceil(TestFacetStrings, Pow(2, L))
            /\ Cardinality(LevelKeys(strdb, 1, L)) < TestFacetStrings
            /\ \A k \in LevelKeys(strdb, 1, L) :
                /\ k[4] - k[3] + 1 \in {Pow(2, L), TestFacetStrings % Pow(2, L)}
                /\ strdb[k].docids = UNION {strdb[z[i]].docids : i \in Covered("string", z, k)}

\* C6, amended: with 100 strings and both sizes given as 1, the group size is
\* raised to 2; execute, once in its loop, ends, with Ok or with an error,
\* and when it ends with Ok the levels are those of groups of 2.
C6_Clamped ==
    /\ []((pc = "done" /\ TinyGroupsTinyLevels) => TestLevels)
    /\ (pc = "for" /\ TinyGroupsTinyLevels)
          ~> (pc \in Returned)

\* The rebuild of the 100 strings has ended with Ok.
C6_Witness ==
    /\ pc = "done"
    /\ TinyGroupsTinyLevels
    /\ Cardinality(LevelKeys(strdb, 1, 0)) = TestFacetStrings
    /\ Cardinality(LevelKeys(strdb, 1, 1)) = 50

\* The store the staged streams are about to be inserted into.
WritingStore == IF pc = "write_string" THEN "string" ELSE "number"

\* The keys of the staged streams, in the order of their insertion.
StagedKeys ==
    Flatten([l \in 1..Len(staged.levels) |->
                [j \in 1..Len(staged.levels[l]) |-> staged.levels[l][j].key]])

\* C11: the merge function given to write_into_lmdb_database is never
\* invoked, so execute never returns IndexingMergingKeys: when the streams of
\* a field are about to be inserted, their keys are keys of that field at a
\* level >= 1, no two of them are equal, and the store holds none of them.
C11_MergeNeverInvoked ==
    /\ pc # "failed_merge"
    /\ error # "IndexingMergingKeys"
    /\ pc \in {"write_string", "write_number"} =>
        LET keys == StagedKeys
        IN  /\ \A i \in 1..Len(keys) : keys[i][1] = field_id /\ keys[i][2] >= 1
            /\ \A i, j \in 1..Len(keys) : i # j => keys[i] # keys[j]
            /\ \A i \in 1..Len(keys) : keys[i] \notin DOMAIN StoreDb(WritingStore)
            /\ \A k \in DOMAIN StoreDb(WritingStore) : k[2] >= 1 => k[1] # field_id

\* execute has ended with Ok after two levels of numbers were inserted, one
\* of them under a key the store held, with other docids, when execute
\* started.
C11_Witness ==
    /\ pc = "done"
    /\ \E k \in DOMAIN f64db :
        /\ k[2] >= 1
        /\ <<"number", k>> \in written
        /\ k \in DOMAIN start.f64db
        /\ f64db[k] # start.f64db[k]
        /\ 2 \in BuiltLevels(f64db, k[1])
====
